---- MODULE Spec2Model ----
(***************************************************************************)
(* hey-ai: the documentation cache (CommandDocsCache, size-bounded LRU on  *)
(* disk) and the session history store (SessionHistory, SQLite).           *)
(*                                                                         *)
(* Node runs one continuation at a time; an async method is a sequence of  *)
(* steps cut at its awaits.  Every awaited file-system call is one step    *)
(* (the call's effect together with the continuation that consumes its     *)
(* result), except writeFile in set, whose effect on disk (SetWrite) and   *)
(* whose continuation (SetTrigger: the call of enforceMaxSize and the      *)
(* return) are two steps, because the continuation reads the shared flag.  *)
(* A call is invisible to the others until its first effect, so the call   *)
(* and its first awaited operation are one step.                           *)
(* Strings (keys, contents, prompts) are well-formed sequences of          *)
(* characters over small alphabets.                                        *)
(***************************************************************************)
EXTENDS Integers, Sequences, FiniteSets, TLC

\* ------------------------------------------------------------------ bounds
MaxCalls == 3       \* get and set calls in one run
MaxFaults == 1      \* file operations the environment makes fail in one run
MaxClock == 1       \* the millisecond clock runs from 0 to MaxClock
MaxEntries == 2     \* addEntry calls in one run
MaxNow == 1         \* Date.now() runs from 0 to MaxNow
MaxLimit == 2       \* the limits asked for are 1..MaxLimit

\* Every call of a run may be outstanding at once.
Procs == 1..MaxCalls
Keys == {"A", "B"}             \* command names (getCachePath is injective on them)
Sources == {"man", "tldr"}     \* DocSource

\* "E" stands for a two-byte character (U+00E9); every other character is ASCII.
Contents == {<< >>, <<"E", "x">>}

VARIABLES
    files,                \* cacheDir: path -> [present, data, mtime]
    clock,                \* wall clock / file-system clock, in ms
    evictionInProgress,   \* CommandDocsCache.evictionInProgress
    passes,               \* enforceMaxSize calls, by the caller whose set made them
    call,                 \* the outstanding get/set call of each caller
    ncalls,               \* calls made so far
    faultsLeft,           \* file operations the environment may still make fail
    written,              \* history: the content argument of the last write of each path
    lru,                  \* history: paths set or hit in this run, least recent access first
    hits,                 \* history: paths whose last access was a get hit
    awaited               \* the callers await each call before they make the next

cacheVars == <<files, clock, evictionInProgress, passes, call, ncalls,
               faultsLeft, written, lru, hits, awaited>>

VARIABLES
    history,              \* table history: the rows, in rowid order
    history_fts,          \* table history_fts: the rowids indexed
    history_vss,          \* table history_vss: the rowids that hold an embedding
    history_embeddings,   \* table history_embeddings: rows [history_id, vss_rowid]
    embedding,            \* addEntry calls suspended at `await getEmbedding`, by historyId
    callText,             \* the local `text` of each suspended addEntry call
    vss_embedding,        \* history_vss.embedding: rowid -> the text it was computed from
    dateNow,              \* Date.now(), in ms
    hybrid,               \* the searchHybrid call suspended at `await getEmbedding`, if any
    result                \* what the last call that completed handed its caller
                          \* (nothing while a searchHybrid call is suspended: the
                          \* queries are made one at a time)

historyVars == <<history, history_fts, history_vss, history_embeddings,
                 embedding, callText, vss_embedding, dateNow, hybrid, result>>

vars == <<cacheVars, historyVars>>

\* ------------------------------------------------------- the cache: data

\* src/unnamed/part_005:26 (the budget, maxSizeMB * 1024 * 1024, scaled down)
maxSizeBytes == 22

NoFile == [present |-> FALSE, data |-> << >>, mtime |-> 0]
NoDoc == [valid |-> FALSE, content |-> << >>]

\* getCachePath: encodeURIComponent is injective and the keys here are short,
\* so each key has its own path; a path is named by its key.
getCachePath(command) == command

\* `---\nsource: ${source}\n---\n`
Header(source) ==
    <<"-", "-", "-", "\n", "s", "o", "u", "r", "c", "e", ":", " ">>
    \o (IF source = "man" THEN <<"m", "a", "n">> ELSE <<"t", "l", "d", "r">>)
    \o <<"\n", "-", "-", "-", "\n">>

\* A header that lacks the newline after the closing dashes.
CacheContentNoNewline(content, source) ==
    SubSeq(Header(source), 1, Len(Header(source)) - 1) \o content

\* set: cacheContent = `---\nsource: ${source}\n---\n${content}`
CacheContent(content, source) == Header(source) \o content

IsPrefix(p, s) == Len(p) <= Len(s) /\ SubSeq(s, 1, Len(p)) = p

\* get: content.match(/^---\nsource: (man|tldr)\n---\n([\s\S]*)$/)
Matches(data) == \E s \in Sources : IsPrefix(Header(s), data)

\* match[2]: what follows the header
MatchBody(data) ==
    LET s == CHOOSE s \in Sources : IsPrefix(Header(s), data)
    IN SubSeq(data, Len(Header(s)) + 1, Len(data))

Utf8Len(c) == IF c = "E" THEN 2 ELSE 1

RECURSIVE Utf8Size(_)
\* stat.size: the byte length of the file's UTF-8 text
Utf8Size(data) ==
    IF data = << >> THEN 0 ELSE Utf8Len(Head(data)) + Utf8Size(Tail(data))

Present == {k \in Keys : files[k].present}

RECURSIVE SumSizes(_, _)
SumSizes(f, ks) ==
    IF ks = {} THEN 0
    ELSE LET k == CHOOSE k \in ks : TRUE
         IN Utf8Size(f[k].data) + SumSizes(f, ks \ {k})

\* The bytes on disk: the sum of the sizes of the stored records.
TotalBytes == SumSizes(files, Present)

\* What a crashed writer of an earlier run leaves: text cut inside the header.
Leftover == [present |-> TRUE, data |-> <<"-", "-", "-">>, mtime |-> 0]

\* The directory as the process finds it: empty, or holding one such record.
InitialDirs == {[k \in Keys |-> NoFile],
                [k \in Keys |-> IF k = "A" THEN Leftover ELSE NoFile]}

\* --------------------------------------------------- the cache: eviction

NoPass == [pc |-> "none", files |-> << >>, i |-> 0, fileInfos |-> << >>,
           totalSize |-> 0, clean |-> TRUE]
\* A pass that has returned (its finally has run) leaves nothing behind.
DonePass == NoPass

Active(ps) == ps.pc \in {"readdir", "stat", "unlink"}
ActivePasses == {id \in DOMAIN passes : Active(passes[id])}

\* A caller's change of the directory disturbs the passes that
\* have taken their listing.
Disturb(pp) ==
    [id \in DOMAIN pp |->
        IF pp[id].pc \in {"stat", "unlink"} THEN [pp[id] EXCEPT !.clean = FALSE]
        ELSE pp[id]]

\* The orders in which readdir may list the paths of ks.
Listings(ks) ==
    {s \in [1..Cardinality(ks) -> ks] : \A i, j \in DOMAIN s : i # j => s[i] # s[j]}

\* A guard that never skips.
NeverSkip(flag) == FALSE

\* enforceMaxSize, lines 105-107: return at once when a pass is running
SkipsPass(flag) == flag

RECURSIVE InsertByMtime(_, _)
InsertByMtime(sorted, x) ==
    IF sorted = << >> THEN <<x>>
    ELSE IF x.mtimeMs < Head(sorted).mtimeMs THEN <<x>> \o sorted
    ELSE <<Head(sorted)>> \o InsertByMtime(Tail(sorted), x)

RECURSIVE SortFrom(_, _)
SortFrom(sorted, rest) ==
    IF rest = << >> THEN sorted
    ELSE SortFrom(InsertByMtime(sorted, Head(rest)), Tail(rest))

RECURSIVE Reverse(_)
Reverse(s) == IF s = << >> THEN << >> ELSE Reverse(Tail(s)) \o <<Head(s)>>

\* A sort with the comparator reversed: newest first.
SortNewestFirst(fileInfos) == Reverse(SortFrom(<< >>, Reverse(fileInfos)))

\* fileInfos.sort((a, b) => a.mtimeMs - b.mtimeMs): stable, oldest first
SortByMtime(fileInfos) == SortFrom(<< >>, fileInfos)

\* The continuation after the stat loop (lines 135-147): return when under the
\* limit, else sort and start deleting.
AfterStatLoop(ps) ==
    IF ps.totalSize <= maxSizeBytes THEN DonePass
    ELSE [ps EXCEPT !.pc = "unlink", !.i = 1, !.files = << >>,
                    !.fileInfos = SortByMtime(ps.fileInfos)]

\* One stat of the loop, lines 118-133: ok with the file's stat, or a failure skipped.
AfterStat(ps, ok, st) ==
    LET got == IF ok
               THEN [ps EXCEPT !.fileInfos = Append(ps.fileInfos, st),
                               !.totalSize = ps.totalSize + st.size]
               ELSE [ps EXCEPT !.clean = FALSE]
    IN IF ps.i < Len(ps.files) THEN [got EXCEPT !.i = ps.i + 1]
       ELSE AfterStatLoop(got)

\* An unlink whose failure leaves the loop (no try around it).
AfterUnlinkAbort(ps, ok) ==
    IF ~ok THEN DonePass
    ELSE LET total == ps.totalSize - ps.fileInfos[ps.i].size
         IN IF ps.i < Len(ps.fileInfos) /\ total > maxSizeBytes
            THEN [ps EXCEPT !.totalSize = total, !.i = ps.i + 1]
            ELSE DonePass

\* One unlink of the loop, lines 144-155, and the loop's next test.
AfterUnlink(ps, ok) ==
    LET total == IF ok THEN ps.totalSize - ps.fileInfos[ps.i].size ELSE ps.totalSize
        got == [ps EXCEPT !.totalSize = total, !.clean = ps.clean /\ ok]
    IN IF ps.i < Len(ps.fileInfos) /\ total > maxSizeBytes
       THEN [got EXCEPT !.i = ps.i + 1]
       ELSE DonePass

\* A pass that ends without clearing the flag.
FlagStays(ps) == evictionInProgress

\* finally: the flag is cleared by whichever pass ends
FlagAfter(ps) == IF Active(ps) THEN evictionInProgress ELSE FALSE

Without(s, k) == SelectSeq(s, LAMBDA x : x # k)
Touch(s, k) == Append(Without(s, k), k)

\* ----------------------------------------------------- the cache: calls

\* A caller's outstanding call.  val is match[2], the value get returns after utimes.
Idle == [op |-> "idle", pc |-> "idle", key |-> "", now |-> 0, val |-> << >>]

Busy == {p \in Procs : call[p].op # "idle"}

\* The slot a new call takes: the first free one.
IsFree(p) == call[p].op = "idle" /\ \A q \in Procs : call[q].op = "idle" => p <= q

\* An operation on path k fails when the path is missing, or when the environment
\* makes it fail (EACCES, EIO).
CanFail(k) == ~files[k].present \/ faultsLeft > 0
FaultsAfter(ok, k) == IF ~ok /\ files[k].present THEN faultsLeft - 1 ELSE faultsLeft

\* A set that awaits the pass it started.
SetAwaitsPass(ps) == IF Active(ps) THEN "evict" ELSE "idle"

\* set, lines 90-97: the pass is not awaited; set returns whatever the pass does
SetCompletion(ps) == "idle"

CacheInit(oneAtATime, nfaults) ==
    /\ files \in InitialDirs
    /\ clock = 0
    /\ evictionInProgress = FALSE
    /\ passes = [p \in Procs |-> NoPass]
    /\ call = [p \in Procs |-> Idle]
    /\ ncalls = 0
    /\ faultsLeft = nfaults
    /\ written = [k \in Keys |-> NoDoc]
    /\ lru = << >>
    /\ hits = {}
    /\ awaited = oneAtATime

\* set(command, content, source) up to the effect of writeFile: the path, mkdir
\* (the directory exists from then on), and the record on disk, stamped with the
\* current time.
SetWrite(p, k, c, s) ==
    /\ IsFree(p)
    /\ awaited => Busy = {}
    /\ ncalls < MaxCalls
    /\ ncalls' = ncalls + 1
    /\ \E d \in {0, 1} :
        /\ clock + d <= MaxClock
        /\ clock' = clock + d
        /\ files' = [files EXCEPT ![getCachePath(k)] =
                        [present |-> TRUE, data |-> CacheContent(c, s),
                         mtime |-> clock + d]]
    /\ call' = [call EXCEPT ![p] = [Idle EXCEPT !.op = "set", !.pc = "trigger"]]
    /\ passes' = Disturb(passes)
    /\ written' = [written EXCEPT ![getCachePath(k)] = [valid |-> TRUE, content |-> c]]
    /\ lru' = IF awaited THEN Touch(lru, getCachePath(k)) ELSE lru
    /\ hits' = IF awaited THEN hits \ {getCachePath(k)} ELSE hits
    /\ UNCHANGED <<evictionInProgress, faultsLeft, awaited>>
    /\ UNCHANGED historyVars

\* The continuation of writeFile: enforceMaxSize() runs to its first await
\* (the flag test, the flag set, readdir issued) and set returns.
SetTrigger(p) ==
    /\ call[p].op = "set" /\ call[p].pc = "trigger"
    /\ LET skip == SkipsPass(evictionInProgress)
           ps == IF skip THEN NoPass ELSE [NoPass EXCEPT !.pc = "readdir"]
           pc == SetCompletion(ps)
       IN /\ passes' = IF skip THEN passes ELSE [passes EXCEPT ![p] = ps]
          /\ evictionInProgress' = (evictionInProgress \/ ~skip)
          /\ call' = [call EXCEPT ![p] = IF pc = "idle" THEN Idle
                                         ELSE [call[p] EXCEPT !.pc = pc]]
    /\ UNCHANGED <<files, clock, ncalls, faultsLeft, written, lru, hits, awaited>>
    /\ UNCHANGED historyVars

\* readdir: the listing, or a failure caught by the outer catch.
PassReaddir(id) ==
    /\ passes[id].pc = "readdir"
    /\ \E ok \in BOOLEAN :
        /\ ~ok => faultsLeft > 0
        /\ faultsLeft' = IF ok THEN faultsLeft ELSE faultsLeft - 1
        /\ \E order \in (IF ok THEN Listings(Present) ELSE {<< >>}) :
               passes' = [passes EXCEPT ![id] =
                   IF ~ok THEN DonePass
                   ELSE IF order = << >> THEN AfterStatLoop(passes[id])
                   ELSE [passes[id] EXCEPT !.pc = "stat", !.files = order, !.i = 1]]
    /\ evictionInProgress' = FlagAfter(passes'[id])
    /\ UNCHANGED <<files, clock, call, ncalls, written, lru, hits, awaited>>
    /\ UNCHANGED historyVars

\* stat of the next listed file
PassStat(id) ==
    /\ passes[id].pc = "stat"
    /\ LET ps == passes[id]
           k == ps.files[ps.i]
           st == [path |-> k, size |-> Utf8Size(files[k].data),
                  mtimeMs |-> files[k].mtime]
       IN \E ok \in BOOLEAN :
            /\ ok => files[k].present
            /\ ~ok => CanFail(k)
            /\ faultsLeft' = FaultsAfter(ok, k)
            /\ passes' = [passes EXCEPT ![id] = AfterStat(ps, ok, st)]
    /\ evictionInProgress' = FlagAfter(passes'[id])
    /\ UNCHANGED <<files, clock, call, ncalls, written, lru, hits, awaited>>
    /\ UNCHANGED historyVars

\* unlink of the next file in sorted order
PassUnlink(id) ==
    /\ passes[id].pc = "unlink"
    /\ LET ps == passes[id]
           k == ps.fileInfos[ps.i].path
       IN \E ok \in BOOLEAN :
            /\ ok => files[k].present
            /\ ~ok => CanFail(k)
            /\ faultsLeft' = FaultsAfter(ok, k)
            /\ files' = IF ok THEN [files EXCEPT ![k] = NoFile] ELSE files
            /\ written' = IF ok THEN [written EXCEPT ![k] = NoDoc] ELSE written
            /\ lru' = IF ok THEN Without(lru, k) ELSE lru
            /\ hits' = IF ok THEN hits \ {k} ELSE hits
            /\ passes' = [passes EXCEPT ![id] = AfterUnlink(ps, ok)]
    /\ evictionInProgress' = FlagAfter(passes'[id])
    /\ UNCHANGED <<clock, call, ncalls, awaited>>
    /\ UNCHANGED historyVars

\* get(command) up to the continuation of readFile: a failure is a miss (null);
\* text that does not match goes to unlink; a match takes `now` and goes to utimes.
GetRead(p, k0) ==
    /\ IsFree(p)
    /\ awaited => Busy = {}
    /\ ncalls < MaxCalls
    /\ ncalls' = ncalls + 1
    /\ LET k == getCachePath(k0)
       IN \E ok \in BOOLEAN :
            /\ ok => files[k].present
            /\ ~ok => CanFail(k)
            /\ faultsLeft' = FaultsAfter(ok, k)
            /\ IF ~ok
               THEN /\ call' = call
                    /\ clock' = clock
               ELSE IF ~Matches(files[k].data)
               THEN /\ call' = [call EXCEPT ![p] = [Idle EXCEPT !.op = "get",
                                                       !.pc = "unlink", !.key = k]]
                    /\ clock' = clock
               ELSE \E d \in {0, 1} :
                    /\ clock + d <= MaxClock
                    /\ clock' = clock + d
                    /\ call' = [call EXCEPT ![p] = [Idle EXCEPT !.op = "get",
                                    !.pc = "utimes", !.key = k, !.now = clock + d,
                                    !.val = MatchBody(files[k].data)]]
    /\ UNCHANGED <<files, evictionInProgress, passes, written, lru, hits, awaited>>
    /\ UNCHANGED historyVars

\* unlink(cachePath).catch(() => {}) of a malformed record; then the miss (null).
GetUnlink(p) ==
    /\ call[p].op = "get" /\ call[p].pc = "unlink"
    /\ LET k == call[p].key
       IN \E ok \in BOOLEAN :
            /\ ok => files[k].present
            /\ ~ok => CanFail(k)
            /\ faultsLeft' = FaultsAfter(ok, k)
            /\ files' = IF ok THEN [files EXCEPT ![k] = NoFile] ELSE files
            /\ written' = IF ok THEN [written EXCEPT ![k] = NoDoc] ELSE written
            /\ lru' = IF ok THEN Without(lru, k) ELSE lru
            /\ hits' = IF ok THEN hits \ {k} ELSE hits
            /\ passes' = IF ok THEN Disturb(passes) ELSE passes
            /\ call' = [call EXCEPT ![p] = Idle]
    /\ UNCHANGED <<clock, evictionInProgress, ncalls, awaited>>
    /\ UNCHANGED historyVars

\* A get that returns the match without touching the file's times.
GetKeepsMtime(f, now) == f

\* utimes(cachePath, now, now): the record's mtime becomes `now`
GetRefresh(f, now) == [f EXCEPT !.mtime = now]

\* utimes(cachePath, now, now).catch(() => {}); then the hit: get returns val.
GetUtimes(p) ==
    /\ call[p].op = "get" /\ call[p].pc = "utimes"
    /\ LET k == call[p].key
       IN \E ok \in BOOLEAN :
            /\ ok => files[k].present
            /\ ~ok => CanFail(k)
            /\ faultsLeft' = FaultsAfter(ok, k)
            /\ files' = IF ok THEN [files EXCEPT ![k] = GetRefresh(files[k], call[p].now)]
                        ELSE files
            /\ lru' = IF ok /\ awaited THEN Touch(lru, k) ELSE lru
            /\ hits' = IF ok /\ awaited THEN hits \cup {k} ELSE hits
            /\ passes' = IF ok THEN Disturb(passes) ELSE passes
            /\ call' = [call EXCEPT ![p] = Idle]
    /\ UNCHANGED <<clock, evictionInProgress, ncalls, written, awaited>>
    /\ UNCHANGED historyVars

CacheNext ==
    \/ \E p \in Procs, k \in Keys, c \in Contents, s \in Sources : SetWrite(p, k, c, s)
    \/ \E p \in Procs : SetTrigger(p)
    \/ \E id \in Procs : PassReaddir(id)
    \/ \E id \in Procs : PassStat(id)
    \/ \E id \in Procs : PassUnlink(id)
    \/ \E p \in Procs, k \in Keys : GetRead(p, k)
    \/ \E p \in Procs : GetUnlink(p)
    \/ \E p \in Procs : GetUtimes(p)

\* ----------------------------------------------------------- the history

\* The interactions appended: prompt and response as character sequences.
Interactions ==
    { [prompt |-> <<"a", "b">>, response |-> <<"c">>],
      [prompt |-> <<"A", "c">>, response |-> <<"b">>],
      [prompt |-> <<"a", "_">>, response |-> <<"c">>] }

Queries == { <<"b">>, <<"a", "c">>, <<"a", "_">>, <<"%">> }
Limits == 1..MaxLimit

NoResult == [op |-> "none", rows |-> << >>]
NoHybrid == [pc |-> "none"]

HistoryInit ==
    /\ history = << >>
    /\ history_fts = {}
    /\ history_vss = {}
    /\ history_embeddings = {}
    /\ embedding = {}
    /\ callText = << >>
    /\ vss_embedding = << >>
    /\ dateNow = 0
    /\ hybrid = NoHybrid
    /\ result = NoResult

\* What addEntry hands its caller: the new id, or the error of the INSERT.
Returned(historyId) == [op |-> "addEntry", rows |-> << >>, id |-> historyId, raised |-> FALSE]
Raised == [op |-> "addEntry", rows |-> << >>, id |-> 0, raised |-> TRUE]

\* An INSERT that indexes nothing.
NoTrigger(fts, id) == fts

\* trigger history_ai: AFTER INSERT ON history, the row enters history_fts
history_ai(fts, id) == fts \cup {id}

\* const text = `${prompt}\n${response}`
Text(prompt, response) == prompt \o <<"\n">> \o response

\* A text shared by the calls: the one of the entry inserted last.
LatestText(historyId) == Text(history[Len(history)].prompt, history[Len(history)].response)

\* The text a suspended call embeds: its own local.
EmbeddedText(historyId) == callText[historyId]

\* addEntry up to `await getEmbedding`: the INSERT with Date.now() as timestamp
\* (AUTOINCREMENT: the next rowid) together with trigger history_ai, as one
\* statement; a statement that fails stores nothing and addEntry raises.
AddEntry(e) ==
    /\ Len(history) < MaxEntries
    /\ \E ok \in BOOLEAN :
        IF ok
        THEN /\ \E d \in {0, 1} :
                /\ dateNow + d <= MaxNow
                /\ dateNow' = dateNow + d
                /\ LET historyId == Len(history) + 1
                   IN /\ history' = Append(history,
                              [id |-> historyId, prompt |-> e.prompt,
                               response |-> e.response,
                               timestamp |-> dateNow + d, cwd |-> "/x"])
                      /\ history_fts' = history_ai(history_fts, historyId)
                      /\ embedding' = embedding \cup {historyId}
                      /\ callText' = [id \in embedding \cup {historyId} |->
                                         IF id = historyId THEN Text(e.prompt, e.response)
                                         ELSE callText[id]]
             /\ UNCHANGED <<history_vss, history_embeddings, vss_embedding,
                            hybrid, result>>
        ELSE /\ result' = Raised
             /\ UNCHANGED <<history, history_fts, history_vss, history_embeddings,
                            embedding, callText, vss_embedding, hybrid, dateNow>>
    /\ UNCHANGED cacheVars

\* Where the try block of addEntry can fail.
EmbedOutcomes == {"ok", "getEmbedding", "vss", "mapping"}

\* An addEntry that hands the failure of its try block to the caller.
AddEntryRethrows(historyId, outcome) ==
    IF outcome = "ok" THEN Returned(historyId) ELSE Raised

\* catch (error) { console.error(...) }; return historyId
AddEntryCompletion(historyId, outcome) == Returned(historyId)

\* A mapping row written whatever became of the embedding and of its vector row.
MappingAlways(rows, historyId, outcome) ==
    rows \cup {[history_id |-> historyId, vss_rowid |-> historyId]}

\* mapStmt.run(historyId, historyId), reached when nothing before it has thrown
MappingAfter(rows, historyId, outcome) ==
    IF outcome = "ok"
    THEN rows \cup {[history_id |-> historyId, vss_rowid |-> historyId]}
    ELSE rows

\* addEntry from the return of getEmbedding: the row of history_vss and then the
\* mapping row, or the catch at the point of failure; addEntry returns historyId.
AddEntryEmbedded(historyId) ==
    /\ historyId \in embedding
    /\ embedding' = embedding \ {historyId}
    /\ callText' = [id \in embedding \ {historyId} |-> callText[id]]
    /\ \E outcome \in EmbedOutcomes :
        /\ history_vss' = IF outcome \in {"ok", "mapping"}
                          THEN history_vss \cup {historyId} ELSE history_vss
        /\ vss_embedding' =
              IF outcome \in {"ok", "mapping"}
              THEN [v \in history_vss \cup {historyId} |->
                       IF v = historyId THEN EmbeddedText(historyId)
                       ELSE vss_embedding[v]]
              ELSE vss_embedding
        /\ history_embeddings' = MappingAfter(history_embeddings, historyId, outcome)
        /\ result' = AddEntryCompletion(historyId, outcome)
    /\ UNCHANGED <<history, history_fts, hybrid, dateNow>>
    /\ UNCHANGED cacheVars

Min(a, b) == IF a < b THEN a ELSE b

\* ORDER BY timestamp DESC: every order of the rows in which timestamps do not
\* increase (SQL leaves the order of rows with equal timestamps open; a scan of
\* idx_timestamp yields them by ascending rowid, which is one of these orders).
OrderByTimestampDesc(rows) ==
    { s \in [1..Cardinality(rows) -> rows] :
        /\ \A i, j \in DOMAIN s : i # j => s[i] # s[j]
        /\ \A i, j \in DOMAIN s : i < j => s[i].timestamp >= s[j].timestamp }

\* LIMIT ?
Limit(s, limit) == SubSeq(s, 1, Min(limit, Len(s)))

Rows(h) == {h[i] : i \in DOMAIN h}

\* getRecentEntries(limit)
GetRecentEntries(limit) ==
    /\ hybrid = NoHybrid
    /\ \E s \in OrderByTimestampDesc(Rows(history)) :
          result' = [op |-> "getRecentEntries", rows |-> Limit(s, limit)]
    /\ UNCHANGED <<history, history_fts, history_vss, history_embeddings,
                   embedding, callText, vss_embedding, hybrid, dateNow>>
    /\ UNCHANGED cacheVars

\* SQLite's LIKE compares ASCII letters without regard to case.
Fold(c) == IF c = "A" THEN "a" ELSE c

\* X LIKE pattern: % matches any run of characters, _ matches one character,
\* any other character matches itself; there is no ESCAPE clause.
RECURSIVE Like(_, _)
Like(pattern, text) ==
    IF pattern = << >> THEN text = << >>
    ELSE IF Head(pattern) = "%"
         THEN Like(Tail(pattern), text) \/ (text # << >> /\ Like(pattern, Tail(text)))
    ELSE /\ text # << >>
         /\ (Head(pattern) = "_" \/ Fold(Head(pattern)) = Fold(Head(text)))
         /\ Like(Tail(pattern), Tail(text))

\* `%${query}%`
searchPattern(query) == <<"%">> \o query \o <<"%">>

\* search(query, limit): the sequences that WHERE prompt LIKE ? OR response LIKE ?
\* ORDER BY timestamp DESC LIMIT ? may return
SearchResults(query, limit) ==
    LET matching == {r \in Rows(history) :
                        \/ Like(searchPattern(query), r.prompt)
                        \/ Like(searchPattern(query), r.response)}
    IN {Limit(s, limit) : s \in OrderByTimestampDesc(matching)}

\* search(query, limit)
search(query, limit) ==
    /\ hybrid = NoHybrid
    /\ \E rows \in SearchResults(query, limit) :
          result' = [op |-> "search", rows |-> rows]
    /\ UNCHANGED <<history, history_fts, history_vss, history_embeddings,
                   embedding, callText, vss_embedding, hybrid, dateNow>>
    /\ UNCHANGED cacheVars

\* ------------------------------------------------- the history: searchFTS

\* The queries given to searchFTS and searchHybrid.
FtsQueries == { << >>, <<"*">>, <<"c", "*">>, <<"a", "_">>, <<"%">> }

\* /['"*()]/g
Reserved == {"'", "\"", "*", "(", ")"}

\* String.prototype.trim
RECURSIVE TrimStart(_)
TrimStart(t) == IF t # << >> /\ Head(t) = " " THEN TrimStart(Tail(t)) ELSE t
RECURSIVE TrimEnd(_)
TrimEnd(t) ==
    IF t # << >> /\ t[Len(t)] = " " THEN TrimEnd(SubSeq(t, 1, Len(t) - 1)) ELSE t
Trim(t) == TrimEnd(TrimStart(t))

\* query.replace(/['"*()]/g, ' ').trim()
Sanitize(query) ==
    Trim([i \in DOMAIN query |-> IF query[i] \in Reserved THEN " " ELSE query[i]])

\* FTS5 query syntax: a bareword is made of letters, digits and underscores and
\* barewords are separated by spaces; any other character outside a quoted
\* string is a syntax error.
BarewordChars == {"a", "b", "c", "A", "_"}
FtsRejects(sanitized) ==
    \E i \in DOMAIN sanitized : sanitized[i] \notin BarewordChars \cup {" "}

\* The unicode61 tokenizer: tokens are the maximal runs of letters and digits,
\* folded to lower case; every other character separates tokens.
TokenChars == {"a", "b", "c", "A"}
RECURSIVE TokensFrom(_, _)
TokensFrom(t, current) ==
    IF t = << >> THEN (IF current = << >> THEN << >> ELSE <<current>>)
    ELSE IF Head(t) \in TokenChars
         THEN TokensFrom(Tail(t), Append(current, Fold(Head(t))))
    ELSE (IF current = << >> THEN << >> ELSE <<current>>) \o TokensFrom(Tail(t), << >>)
Tokens(t) == TokensFrom(t, << >>)

\* The barewords of a query: its maximal runs of characters other than space.
RECURSIVE WordsFrom(_, _)
WordsFrom(t, current) ==
    IF t = << >> THEN (IF current = << >> THEN << >> ELSE <<current>>)
    ELSE IF Head(t) # " " THEN WordsFrom(Tail(t), Append(current, Head(t)))
    ELSE (IF current = << >> THEN << >> ELSE <<current>>) \o WordsFrom(Tail(t), << >>)
Words(t) == WordsFrom(t, << >>)

\* A phrase (the tokens of one bareword) occurs in a column: its tokens are
\* consecutive tokens of the column; a phrase without tokens occurs nowhere.
PhraseIn(phrase, column) ==
    /\ phrase # << >>
    /\ \E i \in 0..(Len(column) - Len(phrase)) :
          \A j \in 1..Len(phrase) : column[i + j] = phrase[j]

\* history_fts MATCH ?: every bareword of the query (implicit AND) occurs in
\* the prompt or in the response of the indexed row.
FtsMatch(r, sanitized) ==
    \A w \in Rows(Words(sanitized)) :
        \/ PhraseIn(Tokens(w), Tokens(r.prompt))
        \/ PhraseIn(Tokens(w), Tokens(r.response))

\* Numbers are counted in halves: One is the number 1.
One == 2

\* bm25(history_fts): negative, the better the match the smaller (-2, -0.5)
FtsScores == {-4, -1}

Abs(x) == IF x < 0 THEN 0 - x ELSE x

\* Every way of giving each row of a set a score of a set.
Scored(rows, scores) ==
    { {[id |-> r.id, score |-> f[r]] : r \in rows} : f \in [rows -> scores] }

\* ORDER BY a raw score, ascending: every order of the rows in which the score
\* does not decrease.
OrderByScore(rows) ==
    { s \in [1..Cardinality(rows) -> rows] :
        /\ \A i, j \in DOMAIN s : i # j => s[i] # s[j]
        /\ \A i, j \in DOMAIN s : i < j => s[i].score <= s[j].score }

FtsRow(id, score) == [id |-> id, score |-> score, source |-> "fts"]

\* catch { return this.search(query, limit).map(r => ({...r, score: 0, source: 'fts'})) }
FallbackResults(query, limit) ==
    { [i \in DOMAIN s |-> FtsRow(s[i].id, 0)] : s \in SearchResults(query, limit) }

\* searchFTS(query, limit): the sequences it may return. A query that is empty
\* once sanitized returns []; a query the engine rejects goes to the fallback.
SearchFTSResults(query, limit) ==
    LET sanitized == Sanitize(query)
    IN IF sanitized = << >> THEN { << >> }
       ELSE IF FtsRejects(sanitized) THEN FallbackResults(query, limit)
       ELSE LET matching == {r \in Rows(history) :
                                r.id \in history_fts /\ FtsMatch(r, sanitized)}
            IN UNION { { [i \in DOMAIN o |-> FtsRow(o[i].id, o[i].score)] :
                           o \in {Limit(s, limit) : s \in OrderByScore(scored)} } :
                       scored \in Scored(matching, FtsScores) }

\* searchFTS(query, limit)
searchFTS(query, limit) ==
    /\ hybrid = NoHybrid
    /\ \E rows \in SearchFTSResults(query, limit) :
          result' = [op |-> "searchFTS", rows |-> rows, query |-> query, limit |-> limit]
    /\ UNCHANGED <<history, history_fts, history_vss, history_embeddings,
                   embedding, callText, vss_embedding, hybrid, dateNow>>
    /\ UNCHANGED cacheVars

\* ---------------------------------------------- the history: searchHybrid

\* Vector distances: 0, 0.5 and 1.5
Distances == {0, 1, 3}

SemanticRow(id, score) == [id |-> id, score |-> score, source |-> "semantic"]

\* The query of searchSemantic: vss_search takes the k nearest rows of
\* history_vss; the joins keep those that have a mapping row and a history row;
\* ORDER BY vss.distance.
SemanticResults(k) ==
    UNION { { [i \in DOMAIN j |->
                  SemanticRow((CHOOSE m \in history_embeddings :
                                   m.vss_rowid = j[i].id).history_id,
                              j[i].score)] :
                j \in { SelectSeq(Limit(s, k),
                            LAMBDA v : /\ \E m \in history_embeddings : m.vss_rowid = v.id
                                       /\ \E r \in Rows(history) :
                                            \E m \in history_embeddings :
                                               m.vss_rowid = v.id /\ m.history_id = r.id) :
                        s \in OrderByScore(scored) } } :
            scored \in Scored({[id |-> v] : v \in history_vss}, Distances) }

\* A score of searchHybrid is the fraction n / d, d > 0.
Frac(n, d) == [n |-> n, d |-> d]
FracLess(x, y) == x.n * y.d < y.n * x.d
FracLeq(x, y) == x.n * y.d <= y.n * x.d

MaxOf(S) == CHOOSE x \in S : \A y \in S : y <= x

\* Math.max(...ftsResults.map(r => Math.abs(r.score)), 1)
maxFtsScore(ftsResults) == MaxOf({Abs(r.score) : r \in Rows(ftsResults)} \cup {One})

\* 1 - (Math.abs(r.score) / maxFtsScore)
FtsNormalized(r, ftsResults) ==
    Frac(maxFtsScore(ftsResults) - Abs(r.score), maxFtsScore(ftsResults))

\* Math.max(...semanticResults.map(r => r.score), 1)
maxSemanticScore(semanticResults) == MaxOf({r.score : r \in Rows(semanticResults)} \cup {One})

\* 1 - (r.score / maxSemanticScore)
normalizedScore(r, semanticResults) ==
    Frac(maxSemanticScore(semanticResults) - r.score, maxSemanticScore(semanticResults))

\* A fusion without the cap at 1.
BoostUncapped(x, y) == Frac(5 * (x.n * y.d + y.n * x.d) + 2 * x.d * y.d, 10 * x.d * y.d)

\* Math.min(1.0, (existing.score + normalizedScore) / 2 + 0.2)
Boost(x, y) ==
    LET n == 5 * (x.n * y.d + y.n * x.d) + 2 * x.d * y.d
        d == 10 * x.d * y.d
    IN IF n > d THEN Frac(d, d) ELSE Frac(n, d)

HybridRow(id, score) == [id |-> id, score |-> score, source |-> "hybrid"]

\* resultMap after the loop over ftsResults, in insertion order
RECURSIVE FtsEntries(_, _)
FtsEntries(rest, ftsResults) ==
    IF rest = << >> THEN << >>
    ELSE <<HybridRow(Head(rest).id, FtsNormalized(Head(rest), ftsResults))>>
            \o FtsEntries(Tail(rest), ftsResults)

\* A merge that adds every vector candidate as a new result.
RECURSIVE MergeAppend(_, _, _)
MergeAppend(map, rest, semanticResults) ==
    IF rest = << >> THEN map
    ELSE MergeAppend(Append(map, HybridRow(Head(rest).id,
                                    normalizedScore(Head(rest), semanticResults))),
                     Tail(rest), semanticResults)

\* resultMap after the loop over semanticResults: an id already in the map has
\* its score replaced in place, a new id is added at the end.
RECURSIVE MergeSemantic(_, _, _)
MergeSemantic(map, rest, semanticResults) ==
    IF rest = << >> THEN map
    ELSE LET r == Head(rest)
             norm == normalizedScore(r, semanticResults)
             merged ==
                 IF \E i \in DOMAIN map : map[i].id = r.id
                 THEN [i \in DOMAIN map |->
                          IF map[i].id = r.id
                          THEN HybridRow(r.id, Boost(map[i].score, norm))
                          ELSE map[i]]
                 ELSE Append(map, HybridRow(r.id, norm))
         IN MergeSemantic(merged, Tail(rest), semanticResults)

\* A sort by score, lowest first.
RECURSIVE InsertByScoreAsc(_, _)
InsertByScoreAsc(sorted, x) ==
    IF sorted = << >> THEN <<x>>
    ELSE IF FracLess(x.score, Head(sorted).score) THEN <<x>> \o sorted
    ELSE <<Head(sorted)>> \o InsertByScoreAsc(Tail(sorted), x)
RECURSIVE SortByScoreAsc(_, _)
SortByScoreAsc(sorted, rest) ==
    IF rest = << >> THEN sorted
    ELSE SortByScoreAsc(InsertByScoreAsc(sorted, Head(rest)), Tail(rest))

\* .sort((a, b) => b.score - a.score): stable, highest score first
RECURSIVE InsertByScoreDesc(_, _)
InsertByScoreDesc(sorted, x) ==
    IF sorted = << >> THEN <<x>>
    ELSE IF FracLess(Head(sorted).score, x.score) THEN <<x>> \o sorted
    ELSE <<Head(sorted)>> \o InsertByScoreDesc(Tail(sorted), x)
RECURSIVE SortByScoreDesc(_, _)
SortByScoreDesc(sorted, rest) ==
    IF rest = << >> THEN sorted
    ELSE SortByScoreDesc(InsertByScoreDesc(sorted, Head(rest)), Tail(rest))

\* searchHybrid from the two candidate lists on: merge, sort, slice(0, limit)
Fuse(ftsResults, semanticResults, limit) ==
    Limit(SortByScoreDesc(<< >>,
              MergeSemantic(FtsEntries(ftsResults, ftsResults),
                            semanticResults, semanticResults)),
          limit)

HybridResult(query, limit, ftsResults, semanticResults) ==
    [op |-> "searchHybrid", rows |-> Fuse(ftsResults, semanticResults, limit),
     query |-> query, limit |-> limit,
     ftsResults |-> ftsResults, semanticResults |-> semanticResults]

\* searchHybrid(query, limit) up to `await getEmbedding(query)` in
\* searchSemantic: searchFTS(query, limit * 2) has run; with no mapping row
\* searchSemantic returns [] at once and searchHybrid goes on to the merge.
SearchHybridCall(query, limit) ==
    /\ hybrid = NoHybrid
    /\ \E ftsResults \in SearchFTSResults(query, limit * 2) :
        IF history_embeddings = {}
        THEN /\ result' = HybridResult(query, limit, ftsResults, << >>)
             /\ hybrid' = hybrid
        ELSE /\ hybrid' = [pc |-> "getEmbedding", query |-> query, limit |-> limit,
                           ftsResults |-> ftsResults]
             /\ result' = NoResult
    /\ UNCHANGED <<history, history_fts, history_vss, history_embeddings,
                   embedding, callText, vss_embedding, dateNow>>
    /\ UNCHANGED cacheVars

\* searchHybrid from the return of getEmbedding(query): the vector query over
\* the tables as they are now, or the catch of searchSemantic ([]); the merge.
SearchHybridEmbedded ==
    /\ hybrid # NoHybrid
    /\ \E ok \in BOOLEAN :
        \E semanticResults \in (IF ok THEN SemanticResults(hybrid.limit * 2) ELSE { << >> }) :
            result' = HybridResult(hybrid.query, hybrid.limit, hybrid.ftsResults,
                                   semanticResults)
    /\ hybrid' = NoHybrid
    /\ UNCHANGED <<history, history_fts, history_vss, history_embeddings,
                   embedding, callText, vss_embedding, dateNow>>
    /\ UNCHANGED cacheVars

HistoryNext ==
    \/ \E e \in Interactions : AddEntry(e)
    \/ \E historyId \in 1..MaxEntries : AddEntryEmbedded(historyId)
    \/ \E limit \in Limits : GetRecentEntries(limit)
    \/ \E query \in Queries, limit \in Limits : search(query, limit)
    \/ \E query \in FtsQueries, limit \in Limits : searchFTS(query, limit)
    \/ \E query \in FtsQueries, limit \in Limits : SearchHybridCall(query, limit)
    \/ SearchHybridEmbedded

\* ------------------------------------------------------- specifications

\* The cache with callers that may overlap their calls, on a file system whose
\* operations fail only on a missing path.
Init == CacheInit(FALSE, 0) /\ HistoryInit
Spec == Init /\ [][CacheNext]_vars

\* The cache with callers that await each call before the next (the passes
\* still run behind them), on a file system whose operations may fail.
SeqInit == CacheInit(TRUE, MaxFaults) /\ HistoryInit
SeqSpec == SeqInit /\ [][CacheNext]_vars

\* A step of an eviction pass: the continuation of its readdir, stat or unlink.
PassStep ==
    \E id \in Procs : PassReaddir(id) \/ PassStat(id) \/ PassUnlink(id)

\* The same cache, where every file operation a pass awaits settles and the
\* event loop runs its continuation.
LiveSpec == SeqInit /\ [][CacheNext]_vars /\ WF_vars(PassStep)

\* The cache used one operation at a time: a call is made only when the call
\* before it has returned and the pass it started, if any, has ended.
SetWriteAtRest(p, k, c, s) == ActivePasses = {} /\ SetWrite(p, k, c, s)
GetReadAtRest(p, k) == ActivePasses = {} /\ GetRead(p, k)

OneAtATimeNext ==
    \/ \E p \in Procs, k \in Keys, c \in Contents, s \in Sources : SetWriteAtRest(p, k, c, s)
    \/ \E p \in Procs : SetTrigger(p)
    \/ \E id \in Procs : PassReaddir(id)
    \/ \E id \in Procs : PassStat(id)
    \/ \E id \in Procs : PassUnlink(id)
    \/ \E p \in Procs, k \in Keys : GetReadAtRest(p, k)
    \/ \E p \in Procs : GetUnlink(p)
    \/ \E p \in Procs : GetUtimes(p)

OneAtATimeInit == CacheInit(TRUE, MaxFaults) /\ HistoryInit
OneAtATimeSpec == OneAtATimeInit /\ [][OneAtATimeNext]_vars

\* The history store of one process, over an empty cache directory.
HistoryOnlyInit == CacheInit(TRUE, 0) /\ Present = {} /\ HistoryInit
HistorySpec == HistoryOnlyInit /\ [][HistoryNext]_vars

\* ------------------------------------------------------ the cache: claims

\* C1: whenever no eviction pass is in flight and no set is in progress, the
\* bytes of the stored records are within the budget.
C1_WithinBudgetAtRest ==
    (ActivePasses = {} /\ \A p \in Procs : call[p].op # "set")
        => TotalBytes <= maxSizeBytes

\* C2: at most one eviction pass is in flight at any time, and a set whose
\* continuation finds a pass in flight returns at once and starts, queues and
\* awaits no pass.
C2_OnePassAtATime ==
    /\ [](Cardinality(ActivePasses) <= 1)
    /\ [][\A p \in Procs :
            (SetTrigger(p) /\ evictionInProgress)
                => (passes' = passes /\ call'[p] = Idle)]_vars

\* A pass that took its listing when one record was stored is still in flight,
\* and the two sets of the run have both written and returned: the later one
\* found the pass in flight.
C2_SetSkippedAPass ==
    \E id \in Procs :
        /\ passes[id].pc = "stat" /\ Len(passes[id].files) = 1
        /\ ncalls = 2 /\ Busy = {}
        /\ \A k \in Keys : written[k].valid

\* C3: in a pass that nothing else disturbs, every deletion happens while the
\* stored bytes exceed the budget and removes a record than which no surviving
\* record is older, and the pass ends once the bytes are within the budget.
C3_OldestFirstUntilWithinBudget ==
    [][\A id \in Procs :
        (PassUnlink(id) /\ passes[id].clean)
            => LET k == passes[id].fileInfos[passes[id].i].path
               IN /\ files[k].present /\ ~files'[k].present
                  /\ TotalBytes > maxSizeBytes
                  /\ \A y \in Present \ {k} : files[y].mtime >= files[k].mtime
                  /\ (TotalBytes' <= maxSizeBytes => ~Active(passes'[id]))
                  /\ (TotalBytes' > maxSizeBytes => Active(passes'[id]))]_vars

\* An undisturbed pass has deleted the oldest record and goes on to the next.
C3_DeletedOldestAndGoesOn ==
    \E id \in Procs :
        /\ passes[id].pc = "unlink" /\ passes[id].i = 2 /\ passes[id].clean
        /\ ~files[passes[id].fileInfos[1].path].present
        /\ files[passes[id].fileInfos[2].path].mtime > passes[id].fileInfos[1].mtimeMs

Before(s, y, k) ==
    \E i, j \in DOMAIN s : i < j /\ s[i] = y /\ s[j] = k

\* C4: with calls made one at a time and no failure, a pass that nothing
\* disturbs never deletes a record whose last access was a get hit while a
\* record last accessed before that hit survives.
C4_HitIsMoreRecent ==
    [][\A id \in Procs :
        (PassUnlink(id) /\ passes[id].clean /\ faultsLeft = MaxFaults)
            => LET k == passes[id].fileInfos[passes[id].i].path
               IN \A y \in Present \ {k} : ~(k \in hits /\ Before(lru, y, k))]_vars

\* C5: a get of a path whose record a set wrote, and that has not been deleted
\* since, is a hit whose value is the content given to the last such set.
C5_GetReturnsWhatSetWrote ==
    [][\A p \in Procs, k \in Keys :
        (GetRead(p, k) /\ written[k].valid)
            => (call'[p].pc = "utimes" /\ call'[p].val = written[k].content)]_vars

\* A get is about to return the two-character content a set stored.
C5_HitWithContent ==
    \E p \in Procs :
        /\ call[p].pc = "utimes" /\ call[p].val = <<"E", "x">>
        /\ written[call[p].key] = [valid |-> TRUE, content |-> <<"E", "x">>]

\* C6: a get of a missing record is a miss that changes nothing; a get that
\* misses on a stored record (unreadable or malformed) has deleted the record
\* when it returns.
C6_MissLeavesNoBadRecord ==
    [][\A p \in Procs, k \in Keys :
        /\ (GetRead(p, k) /\ ~files[k].present) => (files' = files /\ call' = call)
        /\ (GetRead(p, k) /\ files[k].present /\ call'[p].op = "idle")
               => ~files'[k].present
        /\ (GetUnlink(p) /\ call[p].key = k) => ~files'[k].present]_vars

\* C7: set returns in the continuation that calls enforceMaxSize; no set ever
\* waits for a pass.
C7_SetDoesNotAwaitThePass ==
    /\ [](\A p \in Procs : call[p].pc # "evict")
    /\ [][\A p \in Procs : SetTrigger(p) => call'[p] = Idle]_vars

\* A pass is in flight and every call, the set that started it included, has returned.
C7_ReturnedWhilePassInFlight ==
    \E id \in Procs : Active(passes[id]) /\ Busy = {}

\* C8: a stat or an unlink that fails during a pass is skipped: the running
\* total is unchanged, the pass goes on to the next record if there is one,
\* and no caller is affected.
C8_FailedRecordIsSkipped ==
    [][\A id \in Procs :
        LET ps == passes[id] IN
        /\ (PassUnlink(id) /\ files' = files)
              => /\ call' = call
                 /\ IF ps.i < Len(ps.fileInfos)
                    THEN passes'[id].pc = "unlink" /\ passes'[id].i = ps.i + 1
                         /\ passes'[id].totalSize = ps.totalSize
                    ELSE ~Active(passes'[id])
        /\ (PassStat(id) /\ (faultsLeft' < faultsLeft \/ ~files[ps.files[ps.i]].present))
              => /\ call' = call
                 /\ ps.i < Len(ps.files)
                       => /\ passes'[id].pc = "stat" /\ passes'[id].i = ps.i + 1
                          /\ passes'[id].totalSize = ps.totalSize
                          /\ passes'[id].fileInfos = ps.fileInfos]_vars

\* The first unlink of a pass failed: the record is still stored, nothing was
\* subtracted, and the pass is at its second record.
C8_WentOnAfterFailedUnlink ==
    \E id \in Procs :
        LET ps == passes[id] IN
        /\ ps.pc = "unlink" /\ ps.i = 2
        /\ files[ps.fileInfos[1].path].present
        /\ ps.totalSize = ps.fileInfos[1].size + ps.fileInfos[2].size

\* ---------------------------------------------------- the history: claims

\* The last min(limit, n) rows appended, the last one first.
MostRecent(limit) ==
    [i \in 1..Min(limit, Len(history)) |-> history[Len(history) - i + 1]]

\* C9: getRecentEntries(limit) returns the min(limit, n) most recently appended
\* of the n stored entries, the most recently appended first.
C9_RecentIsLastAppended ==
    [][\A limit \in Limits :
        GetRecentEntries(limit) => result'.rows = MostRecent(limit)]_vars

\* text contains term as a substring, letters compared without regard to case
Contains(text, term) ==
    \E i \in 0..(Len(text) - Len(term)) :
        \A j \in 1..Len(term) : Fold(text[i + j]) = Fold(term[j])

\* C10: search returns only entries whose prompt or response contains the
\* query, and every such entry when there are at most limit of them.
C10_SearchReturnsWhatContainsTheTerm ==
    [][\A query \in Queries, limit \in Limits :
        search(query, limit)
            => LET having == {r \in Rows(history) :
                                 Contains(r.prompt, query) \/ Contains(r.response, query)}
                   got == Rows(result'.rows)
               IN /\ got \subseteq having
                  /\ Cardinality(having) <= limit => having \subseteq got]_vars

\* C11: the ids indexed in history_fts are exactly the ids stored in history,
\* in every reachable state: an addEntry stores the row and its keyword record
\* together or stores neither.
C11_KeywordIndexMatchesStore ==
    history_fts = {r.id : r \in Rows(history)}

\* The INSERT of one addEntry failed, and the two entries stored are indexed.
C11_IndexedAfterFailedInsert ==
    /\ Len(history) = 2 /\ history_fts = {1, 2}
    /\ result = Raised

\* C12: when the try block of addEntry fails (the provider, the vector insert
\* or the mapping insert), addEntry returns the new id without raising, the
\* entry and its keyword record stay: the two tables searchFTS reads are as
\* they were before the failure.
C12_EmbeddingFailureIsNotFatal ==
    [][\A historyId \in 1..MaxEntries :
        (AddEntryEmbedded(historyId) /\ history_embeddings' = history_embeddings)
            => /\ result' = Returned(historyId)
               /\ history' = history /\ history_fts' = history_fts
               /\ historyId \in history_fts'
               /\ \E r \in Rows(history') : r.id = historyId]_vars

\* addEntry has returned the id of an entry whose embedding failed; the entry is
\* stored and indexed, and has no vector and no mapping row.
C12_ReturnedWithoutEmbedding ==
    \E r \in Rows(history) :
        /\ result = Returned(r.id)
        /\ r.id \in history_fts /\ r.id \notin embedding
        /\ r.id \notin history_vss
        /\ \A m \in history_embeddings : m.history_id # r.id

\* C13: addEntry completes in the step that writes the row and its keyword
\* record; it does not wait for the embedding provider.
C13_AddEntryReturnsAfterTheWrite ==
    [][Len(history') = Len(history) + 1 => result' = Returned(Len(history'))]_vars

\* The candidates of the last searchHybrid with a given id.
InFts(id) == {f \in Rows(result.ftsResults) : f.id = id}
InSemantic(id) == {v \in Rows(result.semanticResults) : v.id = id}

\* C14: every result of searchHybrid has a score in [0, 1], entries matched by
\* both methods included.
C14_HybridScoresInUnitInterval ==
    result.op = "searchHybrid"
        => \A r \in Rows(result.rows) :
              r.score.d > 0 /\ 0 <= r.score.n /\ r.score.n <= r.score.d

\* A result matched by both methods whose score was cut back to 1.
C14_BoostWasCapped ==
    /\ result.op = "searchHybrid"
    /\ \E r \in Rows(result.rows) :
          /\ r.score.n = r.score.d
          /\ \E f \in InFts(r.id), v \in InSemantic(r.id) :
                LET u == BoostUncapped(FtsNormalized(f, result.ftsResults),
                                       normalizedScore(v, result.semanticResults))
                IN u.n > u.d

C16_BoostIsAtLeastEitherScore ==
    result.op = "searchHybrid"
        => \A r \in Rows(result.rows) :
              \A f \in InFts(r.id), v \in InSemantic(r.id) :
                 /\ FracLeq(FtsNormalized(f, result.ftsResults), r.score)
                 /\ FracLeq(normalizedScore(v, result.semanticResults), r.score)

Ids(rows) == [i \in DOMAIN rows |-> rows[i].id]

\* C17: when every addEntry has completed without storing a vector and the
\* vector search contributes nothing, searchHybrid returns the entries of the
\* keyword search with the same query and limit, in the same order.
C17_DegradesToKeywordSearch ==
    (/\ result.op = "searchHybrid"
     /\ history_vss = {} /\ embedding = {}
     /\ result.semanticResults = << >>)
        => Ids(result.rows) = Ids(Limit(result.ftsResults, result.limit))

\* C18: for a query the full-text engine rejects, searchFTS returns at most
\* limit rows, each with score 0 and source fts, only entries whose prompt or
\* response contains the query, and all of them when they are at most limit.
C18_RejectedQueryIsLiteralSearch ==
    [][\A query \in FtsQueries, limit \in Limits :
        (searchFTS(query, limit) /\ Sanitize(query) # << >> /\ FtsRejects(Sanitize(query)))
            => LET having == {r.id : r \in {h \in Rows(history) :
                                 Contains(h.prompt, query) \/ Contains(h.response, query)}}
                   got == {r.id : r \in Rows(result'.rows)}
               IN /\ Len(result'.rows) <= limit
                  /\ \A r \in Rows(result'.rows) : r.score = 0 /\ r.source = "fts"
                  /\ got \subseteq having
                  /\ Cardinality(having) <= limit => having \subseteq got]_vars

\* C19: for a query that is empty once sanitized, searchFTS returns the entries
\* whose prompt or response contains the query (all of them when they are at
\* most limit), each with score 0 and source fts.
C19_EmptyQueryIsLiteralSearch ==
    [][\A query \in FtsQueries, limit \in Limits :
        (searchFTS(query, limit) /\ Sanitize(query) = << >>)
            => LET having == {r.id : r \in {h \in Rows(history) :
                                 Contains(h.prompt, query) \/ Contains(h.response, query)}}
                   got == {r.id : r \in Rows(result'.rows)}
               IN /\ \A r \in Rows(result'.rows) : r.score = 0 /\ r.source = "fts"
                  /\ got \subseteq having
                  /\ Cardinality(having) <= limit => having \subseteq got]_vars

\* C20: a result of searchHybrid found by the keyword search only has source
\* fts and its normalized keyword score; found by the vector search only,
\* source semantic and its normalized vector score; found by both, source hybrid.
C20_ResultCarriesItsOrigin ==
    result.op = "searchHybrid"
        => \A r \in Rows(result.rows) :
              /\ (InFts(r.id) # {} /\ InSemantic(r.id) = {})
                    => /\ r.source = "fts"
                       /\ \A f \in InFts(r.id) :
                             r.score = FtsNormalized(f, result.ftsResults)
              /\ (InFts(r.id) = {} /\ InSemantic(r.id) # {})
                    => /\ r.source = "semantic"
                       /\ \A v \in InSemantic(r.id) :
                             r.score = normalizedScore(v, result.semanticResults)
              /\ (InFts(r.id) # {} /\ InSemantic(r.id) # {}) => r.source = "hybrid"

\* C21: a result found by both searches has the score
\* min(1, (keyword + vector) / 2 + 0.2) of its two normalized scores, and no id
\* occurs twice in the results.
C21_FusedScoreIsTheBoostedMean ==
    result.op = "searchHybrid"
        => /\ \A i, j \in DOMAIN result.rows :
                 result.rows[i].id = result.rows[j].id => i = j
           /\ \A r \in Rows(result.rows) :
                 \A f \in InFts(r.id), v \in InSemantic(r.id) :
                    LET a == FtsNormalized(f, result.ftsResults)
                        b == normalizedScore(v, result.semanticResults)
                        n == 5 * (a.n * b.d + b.n * a.d) + 2 * a.d * b.d
                        d == 10 * a.d * b.d
                    IN IF n > d THEN r.score.n = r.score.d
                       ELSE r.score.n * d = n * r.score.d

\* A result found by both searches with a fused score below 1, next to a result
\* found by one search only.
C21_BoostedBelowTheCap ==
    /\ result.op = "searchHybrid" /\ Len(result.rows) = 2
    /\ \E r \in Rows(result.rows) :
          /\ InFts(r.id) # {} /\ InSemantic(r.id) # {}
          /\ r.score.n < r.score.d
    /\ \E r \in Rows(result.rows) : InFts(r.id) = {} \/ InSemantic(r.id) = {}

\* 1 - x / max as the specification normalizes: max is the largest of the
\* candidates' values, 0 when there are none; the score is 1 when max is 0.
NormalizedByMax(x, values) ==
    LET max == MaxOf(values \cup {0})
    IN IF max > 0 THEN Frac(max - x, max) ELSE Frac(1, 1)

FracEq(x, y) == x.n * y.d = y.n * x.d

\* C22: a result found by the keyword search only has the score
\* 1 - |score| / maxAbs, maxAbs the largest |score| of the keyword candidates,
\* and the score 1 when maxAbs is 0.
C22_KeywordScoreIsNormalizedByMaxAbs ==
    result.op = "searchHybrid"
        => \A r \in Rows(result.rows) :
              InSemantic(r.id) = {}
                 => \A f \in InFts(r.id) :
                       FracEq(r.score,
                              NormalizedByMax(Abs(f.score),
                                  {Abs(c.score) : c \in Rows(result.ftsResults)}))

\* C23: a result found by the vector search only has the score
\* 1 - distance / maxDist, maxDist the largest distance of the vector
\* candidates, and the score 1 when maxDist is 0.
C23_VectorScoreIsNormalizedByMaxDist ==
    result.op = "searchHybrid"
        => \A r \in Rows(result.rows) :
              InFts(r.id) = {}
                 => \A v \in InSemantic(r.id) :
                       FracEq(r.score,
                              NormalizedByMax(v.score,
                                  {c.score : c \in Rows(result.semanticResults)}))

\* The rowid a table assigns to a row inserted without one: one more than the
\* largest rowid it holds.
AssignedRowid(rowids) == MaxOf(rowids \cup {0}) + 1

\* C24: the mapping row written for an entry holds the rowid the vector table
\* assigned to the inserted vector, not the entry's id put in its place.
C24_MappingHoldsTheAssignedRowid ==
    [][\A historyId \in 1..MaxEntries :
        (AddEntryEmbedded(historyId) /\ history_embeddings' # history_embeddings)
            => \A m \in history_embeddings' \ history_embeddings :
                  /\ m.history_id = historyId
                  /\ m.vss_rowid \in history_vss' \ history_vss
                  /\ m.vss_rowid = AssignedRowid(history_vss)]_vars

\* C25: of two keyword candidates that the vector search did not find, the one
\* with the better (more negative) bm25 score comes before the other in the
\* results of searchHybrid, and is returned whenever the other is.
C25_BetterKeywordMatchRanksFirst ==
    result.op = "searchHybrid"
        => \A f, g \in Rows(result.ftsResults) :
              (InSemantic(f.id) = {} /\ InSemantic(g.id) = {} /\ f.score < g.score)
                 => \A j \in DOMAIN result.rows :
                       result.rows[j].id = g.id
                          => \E i \in 1..(j - 1) : result.rows[i].id = f.id

\* C29: when addEntry calls overlap, each call returns the id of the row that
\* holds its own prompt and response, the ids of the rows are distinct and
\* increase in insertion order, and every mapping row pairs an entry with the
\* embedding of that entry's text, whatever the order of the provider's answers.
C29_OverlappingCallsKeepTheirOwnEntry ==
    /\ [](/\ \A i, j \in DOMAIN history : i < j => history[i].id < history[j].id
          /\ \A m \in history_embeddings :
                \E r \in Rows(history) :
                   /\ r.id = m.history_id
                   /\ m.vss_rowid \in DOMAIN vss_embedding
                   /\ vss_embedding[m.vss_rowid] = Text(r.prompt, r.response))
    /\ [][\A historyId \in 1..MaxEntries :
            AddEntryEmbedded(historyId)
                => /\ result' = Returned(historyId)
                   /\ \E r \in Rows(history) :
                         /\ r.id = historyId
                         /\ Text(r.prompt, r.response) = callText[historyId]]_vars

\* Two calls with different texts overlapped, the provider answered the second
\* first, and both embeddings are stored and mapped.
C29_AnsweredOutOfOrder ==
    /\ Len(history) = 2 /\ embedding = {}
    /\ history[1].prompt # history[2].prompt
    /\ result = Returned(1)
    /\ \A id \in {1, 2} : \E m \in history_embeddings : m.history_id = id

\* C30: every mapping row references a stored entry and a stored vector row,
\* no entry has two mapping rows, an entry without a mapping row is not among
\* the vector candidates of a search, and an entry whose addEntry has completed
\* without a mapping row never gets one.
C30_MappingRowsAreSoundAndFinal ==
    /\ [](/\ \A m \in history_embeddings :
                /\ \E r \in Rows(history) : r.id = m.history_id
                /\ m.vss_rowid \in history_vss
          /\ \A m1, m2 \in history_embeddings :
                m1.history_id = m2.history_id => m1 = m2
          /\ result.op = "searchHybrid"
                => \A v \in Rows(result.semanticResults) :
                      \E m \in history_embeddings : m.history_id = v.id)
    /\ [][\A id \in 1..MaxEntries :
            (/\ id <= Len(history) /\ id \notin embedding
             /\ \A m \in history_embeddings : m.history_id # id)
                => \A m \in history_embeddings' : m.history_id # id]_vars

\* The embedding of one entry failed and its vector row is missing or unmapped,
\* the other entry is mapped, and a search has returned the mapped entry as
\* its only vector candidate.
C30_SearchedWithAnEntryUnmapped ==
    /\ Len(history) = 2 /\ embedding = {}
    /\ Cardinality(history_embeddings) = 1
    /\ result.op = "searchHybrid"
    /\ Len(result.semanticResults) = 1
    /\ \E m \in history_embeddings : result.semanticResults[1].id = m.history_id

\* C26: a pass does not delete a record whose time was refreshed (by the utimes
\* of a get hit or by a rewrite) after the pass read it, while a record with an
\* older time is stored.
C26_RefreshedRecordOutlivesOlderOnes ==
    [][\A id \in Procs :
        PassUnlink(id)
            => LET info == passes[id].fileInfos[passes[id].i]
                   k == info.path
               IN (/\ files[k].present /\ ~files'[k].present
                   /\ files[k].mtime > info.mtimeMs)
                      => \A y \in Present \ {k} : files[y].mtime >= files[k].mtime]_vars

\* C27: every pass that starts ends, whichever way (the listing fails, the
\* total is within the budget, the deletions are done), the flag is set exactly
\* while a pass is in flight, and a set whose continuation runs when no pass is
\* in flight starts one.
C27_EveryPassEndsAndClearsTheFlag ==
    /\ \A id \in Procs : Active(passes[id]) ~> ~Active(passes[id])
    /\ evictionInProgress ~> ~evictionInProgress
    /\ [](evictionInProgress <=> ActivePasses # {})
    /\ [][\A p \in Procs :
            (SetTrigger(p) /\ ActivePasses = {})
                => (Active(passes'[p]) /\ evictionInProgress')]_vars

\* A pass has met a failed file operation and ended without deleting anything,
\* and the set made after it has started a new pass.
C27_NewPassAfterAFailedOne ==
    /\ faultsLeft < MaxFaults
    /\ ncalls = 2 /\ Busy = {}
    /\ \A k \in Keys : written[k].valid
    /\ \E id \in Procs : passes[id].pc = "readdir"

\* C28: with operations made one at a time, no failure, and a cache that holds
\* only records written in this run, the pass a set started does not delete the
\* record that set wrote, when that record alone is within the budget.
C28_PassSparesTheRecordJustWritten ==
    [][\A id \in Procs :
        (PassUnlink(id) /\ faultsLeft = MaxFaults /\ lru # << >>)
            => LET k == lru[Len(lru)]
               IN (/\ k \notin hits
                   /\ \A y \in Present : written[y].valid
                   /\ files[k].present
                   /\ Utf8Size(files[k].data) <= maxSizeBytes)
                      => files'[k].present]_vars

====
